---------------------------- MODULE Spec2Model ----------------------------
(***************************************************************************)
(* Model of ironic_python_agent/utils.py: resolution of the agent          *)
(* parameters from the kernel command line and from virtual media, the     *)
(* process-wide parameter cache, and the parsing of root device hints.     *)
(*                                                                         *)
(* Text is a sequence of symbols.  A symbol is a single character written  *)
(* as a one-character string, or a word ("boot_method", "model", ...)      *)
(* standing for a run of lowercase letters that holds no separator.        *)
(* A parameter map (a Python dict) is a function from keys to values.      *)
(***************************************************************************)
EXTENDS Integers, Sequences, FiniteSets, TLC

(***************************************************************************)
(* Text primitives (Python str methods used by the module).                *)
(***************************************************************************)

\* str.split() without argument splits on runs of these characters.
Whitespace == {" ", "\n", "\t"}

Digits == {"0", "1", "2"}

DigitValue(c) == CASE c = "0" -> 0 [] c = "1" -> 1 [] c = "2" -> 2

Range(s) == {s[i] : i \in DOMAIN s}

\* Index of the first symbol of s that is in seps (0 when there is none).
FirstIn(s, seps) ==
    IF \E i \in DOMAIN s : s[i] \in seps
    THEN CHOOSE i \in DOMAIN s :
             /\ s[i] \in seps
             /\ \A j \in 1..(i - 1) : s[j] \notin seps
    ELSE 0

\* str.split(sep): splits at every separator, keeping empty pieces.
RECURSIVE SplitAll(_, _)
SplitAll(s, seps) ==
    LET i == FirstIn(s, seps)
    IN  IF i = 0 THEN <<s>>
        ELSE <<SubSeq(s, 1, i - 1)>> \o SplitAll(SubSeq(s, i + 1, Len(s)), seps)

NonEmpty(s) == s # <<>>

\* str.split(): splits on runs of whitespace, no empty pieces.
SplitWhitespace(s) == SelectSeq(SplitAll(s, Whitespace), NonEmpty)

\* Mutant of SplitFirst: the split is at the last separator.
SplitAtLast(s, seps) ==
    IF \A i \in DOMAIN s : s[i] \notin seps THEN <<s>>
    ELSE LET i == CHOOSE i \in DOMAIN s :
                      /\ s[i] \in seps
                      /\ \A j \in (i + 1)..Len(s) : s[j] \notin seps
         IN  <<SubSeq(s, 1, i - 1), SubSeq(s, i + 1, Len(s))>>

\* Mutant of SplitFirst: the separator stays at the head of the second piece.
SplitFirstKeepsSeparator(s, seps) ==
    LET i == FirstIn(s, seps)
    IN  IF i = 0 THEN <<s>>
        ELSE <<SubSeq(s, 1, i - 1), SubSeq(s, i, Len(s))>>

\* str.split(sep, 1): at most one split, at the first separator.
SplitFirst(s, seps) ==
    LET i == FirstIn(s, seps)
    IN  IF i = 0 THEN <<s>>
        ELSE <<SubSeq(s, 1, i - 1), SubSeq(s, i + 1, Len(s))>>

(***************************************************************************)
(* Dictionaries.                                                           *)
(***************************************************************************)
EmptyMap == [k \in {} |-> <<>>]

\* d[k] = v
Put(d, k, v) == [x \in (DOMAIN d) \cup {k} |-> IF x = k THEN v ELSE d[x]]

\* del d[k]
Del(d, k) == [x \in (DOMAIN d) \ {k} |-> d[x]]

\* d.update(e): the entries of e override those of d.
DictUpdate(d, e) ==
    [x \in (DOMAIN d) \cup (DOMAIN e) |-> IF x \in DOMAIN e THEN e[x] ELSE d[x]]

\* dict(pairs): later pairs override earlier ones.
RECURSIVE DictOfPairs(_)
DictOfPairs(pairs) ==
    IF pairs = <<>> THEN EmptyMap
    ELSE LET n == Len(pairs)
         IN  Put(DictOfPairs(SubSeq(pairs, 1, n - 1)), pairs[n][1], pairs[n][2])

(***************************************************************************)
(* _read_params_from_file: the parsing of the text read from the file.     *)
(***************************************************************************)
RECURSIVE ParseOptions(_)
ParseOptions(options) ==
    IF options = <<>> THEN EmptyMap
    ELSE LET n      == Len(options)
             params == ParseOptions(SubSeq(options, 1, n - 1))
             option == options[n]
         IN  IF "=" \notin Range(option) THEN params
             ELSE LET kv == SplitFirst(option, {"="})
                  IN  Put(params, kv[1], kv[2])

read_params_from_file(text) == ParseOptions(SplitWhitespace(text))

(***************************************************************************)
(* normalize and the root device hints.                                    *)
(***************************************************************************)
SUPPORTED_ROOT_DEVICE_HINTS ==
    {<<"size">>, <<"model">>, <<"wwn">>, <<"serial">>, <<"vendor">>}

\* The character whose code is the two hexadecimal digits hi, lo.
HexChar(hi, lo) ==
    CASE hi = "0" /\ lo = "0" -> "NUL"
      [] hi = "0" /\ lo = "1" -> "SOH"
      [] hi = "0" /\ lo = "2" -> "STX"
      [] hi = "1" /\ lo = "0" -> "DLE"
      [] hi = "1" /\ lo = "1" -> "DC1"
      [] hi = "1" /\ lo = "2" -> "DC2"
      [] hi = "2" /\ lo = "0" -> " "
      [] hi = "2" /\ lo = "1" -> "!"
      [] hi = "2" /\ lo = "2" -> "QUOTE"

\* parse.unquote: "%" followed by two hexadecimal digits becomes the
\* character of that code; any other "%" is kept.  The digits are the only
\* hexadecimal symbols of the model's alphabet, and no word begins with two
\* hexadecimal letters.
RECURSIVE unquote(_)
unquote(s) ==
    IF s = <<>> THEN <<>>
    ELSE IF s[1] = "%" /\ Len(s) >= 3 /\ s[2] \in Digits /\ s[3] \in Digits
         THEN <<HexChar(s[2], s[3])>> \o unquote(SubSeq(s, 4, Len(s)))
         ELSE <<s[1]>> \o unquote(Tail(s))

LowerChar(c) == IF c = "M" THEN "m" ELSE c

\* str.lower
lower(s) == [i \in DOMAIN s |-> LowerChar(s[i])]

\* str.strip
RECURSIVE strip(_)
strip(s) ==
    IF s = <<>> THEN <<>>
    ELSE IF s[1] \in Whitespace THEN strip(Tail(s))
    ELSE IF s[Len(s)] \in Whitespace THEN strip(SubSeq(s, 1, Len(s) - 1))
    ELSE s

normalize(string) == strip(lower(unquote(string)))

\* int(s) succeeds on a non-empty run of decimal digits.
IsInt(s) == s # <<>> /\ \A i \in DOMAIN s : s[i] \in Digits

RECURSIVE IntOf(_)
IntOf(s) ==
    IF s = <<>> THEN 0
    ELSE 10 * IntOf(SubSeq(s, 1, Len(s) - 1)) + DigitValue(s[Len(s)])

\* The outcome of a call: a returned value or a raised error.
Returned(v) ==
    [status |-> "ok", err |-> "", line |-> 0, value |-> v, not_supported |-> {}]

Raised(e, l) ==
    [status |-> "error", err |-> e, line |-> l, value |-> EmptyMap,
     not_supported |-> {}]

NoResult ==
    [status |-> "none", err |-> "", line |-> 0, value |-> EmptyMap,
     not_supported |-> {}]

\* item.split('=') of line 218.
SplitHintItem(item) == SplitAll(item, {"="})

\* Mutant of NotSupported: only one offending key is reported.
FirstNotSupported(hints) ==
    LET bad == (DOMAIN hints) \ SUPPORTED_ROOT_DEVICE_HINTS
    IN  IF bad = {} THEN {} ELSE {CHOOSE k \in bad : TRUE}

\* The keys named by the DeviceNotFound message of lines 221-227.
NotSupported(hints) == (DOMAIN hints) \ SUPPORTED_ROOT_DEVICE_HINTS

\* Lines 231-236: normalise the values, size as an integer.
NormalizeHints(hints) ==
    LET normalized == [k \in DOMAIN hints |-> normalize(hints[k])]
    IN  IF <<"size">> \in DOMAIN normalized
        THEN IF IsInt(normalized[<<"size">>])
             THEN Returned([k \in DOMAIN normalized |->
                               IF k = <<"size">>
                               THEN IntOf(normalized[k])
                               ELSE normalized[k]])
             ELSE Raised("ValueError", 236)
        ELSE Returned(normalized)

\* Mutant of HintsOf: the values are normalized and converted before the
\* keys are checked.
HintsOfNormalizeFirst(params) ==
    IF \/ <<"root_device">> \notin DOMAIN params
       \/ params[<<"root_device">>] = <<>>
    THEN Returned(EmptyMap)
    ELSE LET items == SplitAll(params[<<"root_device">>], {","})
             pairs == [i \in DOMAIN items |-> SplitHintItem(items[i])]
         IN  IF \E i \in DOMAIN pairs : Len(pairs[i]) # 2
             THEN Raised("ValueError", 218)
             ELSE LET hints == DictOfPairs(pairs)
                  IN  IF NormalizeHints(hints).status = "error"
                      THEN NormalizeHints(hints)
                      ELSE IF NotSupported(hints) # {}
                      THEN [Raised("DeviceNotFound", 228)
                                EXCEPT !.not_supported = NotSupported(hints)]
                      ELSE NormalizeHints(hints)

\* parse_root_device_hints, lines 215-238, on the map get_agent_params
\* returned.
HintsOf(params) ==
    IF \/ <<"root_device">> \notin DOMAIN params
       \/ params[<<"root_device">>] = <<>>
    THEN Returned(EmptyMap)
    ELSE LET items == SplitAll(params[<<"root_device">>], {","})
             pairs == [i \in DOMAIN items |-> SplitHintItem(items[i])]
         IN  IF \E i \in DOMAIN pairs : Len(pairs[i]) # 2
             THEN Raised("ValueError", 218)
             ELSE LET hints == DictOfPairs(pairs)
                  IN  IF NotSupported(hints) # {}
                      THEN [Raised("DeviceNotFound", 228)
                                EXCEPT !.not_supported = NotSupported(hints)]
                      ELSE NormalizeHints(hints)

(***************************************************************************)
(* _get_vmedia_device: the scan of the sysfs model descriptors.            *)
(***************************************************************************)
vmedia_device_model == <<"virtual", " ", "media">>

\* "Virtual" and "MEDIA" are the words virtual and media in another case.
LowerWord(c) ==
    CASE c = "Virtual" -> "virtual"
      [] c = "MEDIA"   -> "media"
      [] OTHER         -> LowerChar(c)

\* needle in haystack (substring test of line 100)
Contains(haystack, needle) ==
    \E i \in 0..(Len(haystack) - Len(needle)) :
        SubSeq(haystack, i + 1, i + Len(needle)) = needle

\* Lines 99-100 for one descriptor: it can be opened and read, and its
\* lowercased content contains "virtual media".
DescriptorMatches(d) ==
    /\ d.readable
    /\ Contains([i \in DOMAIN d.content |-> LowerWord(d.content[i])],
                vmedia_device_model)

NoDevice == "None"

\* Mutant of ScanModels: an unreadable descriptor ends the scan.
RECURSIVE ScanUntilUnreadable(_)
ScanUntilUnreadable(model_files) ==
    IF model_files = <<>> THEN NoDevice
    ELSE IF ~Head(model_files).readable THEN NoDevice
    ELSE IF DescriptorMatches(Head(model_files)) THEN Head(model_files).dev
    ELSE ScanUntilUnreadable(Tail(model_files))

\* Lines 97-104: the first matching descriptor's device name, else None.
RECURSIVE ScanModels(_)
ScanModels(model_files) ==
    IF model_files = <<>> THEN NoDevice
    ELSE IF DescriptorMatches(Head(model_files)) THEN Head(model_files).dev
    ELSE ScanModels(Tail(model_files))

get_vmedia_device(sysfs_device_models) == ScanModels(sysfs_device_models)

(***************************************************************************)
(* Bounds and inputs.                                                      *)
(***************************************************************************)
\* Number of comma-separated items of a root_device value.
MaxHintItems == 2

\* Number of block devices with a model descriptor.
MaxDevs == 2

\* The counters of mounts and of reads of parameters.txt stop here.
MaxCount == 2

\* The threads of the process that call into the module.
Procs == {"t1", "t2"}

HintItems ==
    { <<"model", "=", "%", "2", "0", "M">>,
      <<"size", "=", "1", "0">>,
      <<"size", "=", "x">>,
      <<"foo", "=">>,
      <<"qux", "=", "1">>,
      <<"model", "=", "x", "=", "x">>,
      <<"wwn">>,
      <<>> }

RECURSIVE JoinWith(_, _)
JoinWith(pieces, sep) ==
    IF Len(pieces) = 0 THEN <<>>
    ELSE IF Len(pieces) = 1 THEN pieces[1]
    ELSE pieces[1] \o <<sep>> \o JoinWith(Tail(pieces), sep)

HintTexts ==
    { JoinWith(items, ",") :
        items \in UNION {[1..n -> HintItems] : n \in 1..MaxHintItems} }

\* Contents of /proc/cmdline.
CmdLines ==
    { <<>>,
      <<"quiet">>,
      <<"a", "=", "1", " ", "quiet">>,
      <<"a", "=", "1", " ", "boot_method", "=", "vmedia">>,
      <<"boot_method", "=", "vmedia", "\n">>,
      <<"boot_method", "=", "pxe", " ", "a", "=", "1", "=", "2">> }
    \cup { <<"root_device", "=">> \o h : h \in HintTexts }

\* Contents of parameters.txt on the virtual media.
VmediaTexts ==
    { <<>>,
      <<"a", "=", "2">>,
      <<"boot_method", "=", "pxe", "\n",
        "root_device", "=", "size", "=", "1">> }

DevNames == <<"sda", "sdb", "sdc", "sdd">>

DescriptorKinds ==
    { [readable |-> FALSE, content |-> <<>>],
      [readable |-> TRUE,  content |-> <<"Virtual", " ", "MEDIA", "\n">>],
      [readable |-> TRUE,  content |-> <<"virtual", "media">>],
      [readable |-> TRUE,  content |-> <<"disk">>] }

\* What glob.glob("/sys/class/block/*/device/model") can list.
SysfsLists ==
    { [i \in DOMAIN kinds |->
          [dev |-> DevNames[i], readable |-> kinds[i].readable,
           content |-> kinds[i].content]] :
        kinds \in UNION {[1..n -> DescriptorKinds] : n \in 0..MaxDevs} }

\* Length of the texts given to the key=value parser.
MaxTextLen == 5

TextAlphabet == {"a", "b", "=", " ", "\n"}

\* Every text of at most MaxTextLen symbols.
Texts == UNION {[1..n -> TextAlphabet] : n \in 0..MaxTextLen}

\* What a caller may do to a map it was given.
MutationKeys == {<<"a">>, <<"root_device">>}
MutationValue == <<"x">>

(***************************************************************************)
(* State.                                                                  *)
(***************************************************************************)
VARIABLES
    cmdline,        \* content of /proc/cmdline
    vmedia,         \* content of parameters.txt on the virtual media
    heap,           \* the dict objects, by identity
    cache,          \* AGENT_PARAMS_CACHED: the identity of the cached dict
    pc,             \* per thread: the line it is about to execute
    fn,             \* per thread: the function it called
    params,         \* per thread: local params of get_agent_params
    vmedia_params,  \* per thread: local vmedia_params (a value)
    ret,            \* per thread: the dict get_agent_params returned to it
    result,         \* per thread: outcome of its last finished call
    pending,        \* per thread: the exception being propagated
    session,        \* per thread: what its _get_vmedia_params did
    io,             \* per thread: the I/O its current call performed
    prev,           \* per thread: outcome of the get_agent_params call that
                    \*   completed last before its call began
    last,           \* outcome of the get_agent_params call completed last
    mounts,         \* number of successful mounts so far
    reads,          \* number of successful reads of parameters.txt so far
    resolved,       \* a call that read the virtual media has returned
    seen            \* per thread: resolved, when its call began

vars == <<cmdline, vmedia, heap, cache, pc, fn, params, vmedia_params, ret,
          result, pending, session, io, prev, last, mounts, reads, resolved,
          seen>>

NoRef == 0
ObjIds == 1..(2 * Cardinality(Procs) + 1)

NoSession ==
    [stable |-> "none", device |-> "", sysfs |-> <<>>, discovery |-> FALSE,
     tmpdir |-> "none", mount |-> "none", read |-> "none", umount |-> "none",
     rmtree |-> "none"]

Live(c, ps, rs) ==
    ({c} \cup {ps[p] : p \in Procs} \cup {rs[p] : p \in Procs}) \ {NoRef}

\* Objects nothing refers to are dropped.
Collect(h, c, ps, rs) ==
    [i \in ObjIds |-> IF i \in Live(c, ps, rs) THEN h[i] ELSE EmptyMap]

NewId(live) == CHOOSE i \in ObjIds \ live : \A j \in ObjIds \ live : i <= j

Bump(n) == IF n < MaxCount THEN n + 1 ELSE n

\* The process starts: nothing cached, no call made.
Started ==
    /\ heap = [i \in ObjIds |-> EmptyMap]
    /\ cache = 1
    /\ pc = [p \in Procs |-> "idle"]
    /\ fn = [p \in Procs |-> "none"]
    /\ params = [p \in Procs |-> NoRef]
    /\ vmedia_params = [p \in Procs |-> EmptyMap]
    /\ ret = [p \in Procs |-> NoRef]
    /\ result = [p \in Procs |-> NoResult]
    /\ pending = [p \in Procs |-> NoResult]
    /\ session = [p \in Procs |-> NoSession]
    /\ io = [p \in Procs |-> {}]
    /\ prev = [p \in Procs |-> NoResult]
    /\ last = NoResult
    /\ mounts = 0
    /\ reads = 0
    /\ resolved = FALSE
    /\ seen = [p \in Procs |-> FALSE]

Init ==
    /\ cmdline \in CmdLines
    /\ vmedia \in VmediaTexts
    /\ Started

(***************************************************************************)
(* Decisions of the code.                                                  *)
(***************************************************************************)
\* Mutant of CacheHit: the cached map is never used.
CacheNeverHit(d) == FALSE

\* Line 181, "if not params": a dict is true when it is not empty.
CacheHit(d) == d # EmptyMap

\* Mutant of BootedOverVmedia: any boot_method counts as virtual media.
BootMethodPresent(d) == <<"boot_method">> \in DOMAIN d

\* Line 186.
BootedOverVmedia(d) ==
    <<"boot_method">> \in DOMAIN d /\ d[<<"boot_method">>] = <<"vmedia">>

\* Mutant of MergeParams: the command-line values win.
MergeCmdlineWins(cmdline_params, media_params) ==
    DictUpdate(media_params, cmdline_params)

\* Mutant of MergeParams: the command-line keys are lost.
MergeVmediaOnly(cmdline_params, media_params) == media_params

\* Line 188: params.update(vmedia_params).
MergeParams(cmdline_params, media_params) ==
    DictUpdate(cmdline_params, media_params)

\* Mutant of set_cached_params: the assignment is lost.
set_cached_params_lost(cached, new) == cached

\* Lines 160-163: the object AGENT_PARAMS_CACHED names after the call.
set_cached_params(cached, new) == new

\* Mutant of deepcopy: the same object is returned.
deepcopy_same_object(ref, fresh) == ref

\* Line 193: copy.deepcopy returns a fresh object.
deepcopy(ref, fresh) == fresh

\* Mutant of NeedsDiscovery: sysfs is scanned whether or not the stable
\* path exists.
AlwaysDiscover(exists) == TRUE

\* Line 116: "if not os.path.exists(vmedia_device_file)".
NeedsDiscovery(exists) == ~exists

\* Mutant of Handler: no finally clause.
HandlerWithoutFinally(line) == "raise"

\* Where an exception raised at the given line is handled: the try block of
\* lines 129-145 has the finally clause of lines 146-150; nothing else in
\* the module catches.
Handler(line) ==
    IF line \in {"L131", "L140", "L143"} THEN "L148" ELSE "raise"

\* Mutant of MountFailure: the failed mount is swallowed.
MountFailureSwallowed == NoResult

\* Lines 133-136: a failed mount command becomes a VirtualMediaBootError.
MountFailure == Raised("VirtualMediaBootError", 136)

\* Mutant of ReadFailure: the failed read is swallowed.
ReadFailureSwallowed == NoResult

\* Line 140: an error reading parameters.txt is not caught.
ReadFailure == Raised("IOError", 76)

\* Mutant of UmountFailure: the failed umount is raised.
UmountFailureRaised == Raised("ProcessExecutionError", 143)

\* Lines 144-145: a failed umount command is swallowed.
UmountFailure == NoResult

(***************************************************************************)
(* Steps of get_agent_params and of parse_root_device_hints by thread p.   *)
(***************************************************************************)
Goto(p, line) == pc' = [pc EXCEPT ![p] = line]

Did(p, what) == io' = [io EXCEPT ![p] = @ \cup what]

Fail(p, e) ==
    /\ pending' = [pending EXCEPT ![p] = e]
    /\ Goto(p, Handler(pc[p]))

\* A thread calls get_agent_params or parse_root_device_hints (whose first
\* statement, line 214, calls get_agent_params).
Call(p, f) ==
    /\ pc[p] = "idle"
    /\ Goto(p, "L180")
    /\ fn' = [fn EXCEPT ![p] = f]
    /\ ret' = [ret EXCEPT ![p] = NoRef]
    /\ result' = [result EXCEPT ![p] = NoResult]
    /\ session' = [session EXCEPT ![p] = NoSession]
    /\ io' = [io EXCEPT ![p] = {}]
    /\ prev' = [prev EXCEPT ![p] = last]
    /\ seen' = [seen EXCEPT ![p] = resolved]
    /\ heap' = Collect(heap, cache, params, ret')
    /\ UNCHANGED <<cmdline, vmedia, resolved, cache, params, vmedia_params,
                   pending, last, mounts, reads>>

\* Lines 180-181.
GetCached(p) ==
    /\ pc[p] = "L180"
    /\ params' = [params EXCEPT ![p] = cache]
    /\ Goto(p, IF CacheHit(heap[cache]) THEN "L193" ELSE "L182")
    /\ UNCHANGED <<cmdline, vmedia, resolved, seen, heap, cache, fn,
                   vmedia_params, ret, result, pending, session, io, prev,
                   last, mounts, reads>>

\* Line 182: _read_params_from_file('/proc/cmdline').
ReadCmdline(p) ==
    /\ pc[p] = "L182"
    /\ Did(p, {"cmdline"})
    /\ \E readable \in BOOLEAN :
         IF readable
         THEN LET id == NewId(Live(cache, [params EXCEPT ![p] = NoRef], ret))
              IN  /\ params' = [params EXCEPT ![p] = id]
                  /\ heap' = Collect(
                         [heap EXCEPT ![id] = read_params_from_file(cmdline)],
                         cache, params', ret)
                  /\ Goto(p, "L186")
                  /\ UNCHANGED pending
         ELSE /\ Fail(p, Raised("IOError", 76))
              /\ UNCHANGED <<params, heap>>
    /\ UNCHANGED <<cmdline, vmedia, resolved, seen, cache, fn, vmedia_params,
                   ret, result, session, prev, last, mounts, reads>>

\* Line 186.
CheckBootMethod(p) ==
    /\ pc[p] = "L186"
    /\ Goto(p, IF BootedOverVmedia(heap[params[p]]) THEN "L115" ELSE "L191")
    /\ UNCHANGED <<cmdline, vmedia, resolved, seen, heap, cache, fn, params,
                   vmedia_params, ret, result, pending, session, io, prev,
                   last, mounts, reads>>

\* Lines 115-126 of _get_vmedia_params: the device to mount.
FindDevice(p) ==
    /\ pc[p] = "L115"
    /\ \E exists \in BOOLEAN, models \in SysfsLists :
         LET discover == NeedsDiscovery(exists)
             vmedia_device ==
                 IF discover THEN get_vmedia_device(models) ELSE NoDevice
         IN  /\ discover \/ models = <<>>
             /\ Did(p, IF discover THEN {"exists", "sysfs"} ELSE {"exists"})
             /\ session' = [session EXCEPT
                    ![p].stable = IF exists THEN "present" ELSE "absent",
                    ![p].discovery = discover,
                    ![p].sysfs = IF discover THEN models ELSE <<>>,
                    ![p].device =
                        IF discover THEN vmedia_device ELSE "ir-vfd-dev"]
             /\ IF discover /\ vmedia_device = NoDevice
                THEN Fail(p, Raised("VirtualMediaBootError", 124))
                ELSE Goto(p, "L128") /\ UNCHANGED pending
    /\ UNCHANGED <<cmdline, vmedia, resolved, seen, heap, cache, fn, params,
                   vmedia_params, ret, result, prev, last, mounts, reads>>

\* Line 128: tempfile.mkdtemp().
Mkdtemp(p) ==
    /\ pc[p] = "L128"
    /\ Did(p, {"mkdtemp"})
    /\ \E created \in BOOLEAN :
         IF created
         THEN /\ session' = [session EXCEPT ![p].tmpdir = "exists",
                                            ![p].sysfs = <<>>]
              /\ Goto(p, "L131")
              /\ UNCHANGED pending
         ELSE /\ session' = [session EXCEPT ![p].sysfs = <<>>]
              /\ Fail(p, Raised("OSError", 128))
    /\ UNCHANGED <<cmdline, vmedia, resolved, seen, heap, cache, fn, params,
                   vmedia_params, ret, result, prev, last, mounts, reads>>

\* Lines 130-136: execute("mount", ...).
Mount(p) ==
    /\ pc[p] = "L131"
    /\ Did(p, {"mount"})
    /\ \E mounted \in BOOLEAN :
         IF mounted
         THEN /\ session' = [session EXCEPT ![p].mount = "ok"]
              /\ mounts' = Bump(mounts)
              /\ Goto(p, "L140")
              /\ UNCHANGED pending
         ELSE /\ session' = [session EXCEPT ![p].mount = "failed"]
              /\ Fail(p, MountFailure)
              /\ UNCHANGED mounts
    /\ UNCHANGED <<cmdline, vmedia, resolved, seen, heap, cache, fn, params,
                   vmedia_params, ret, result, prev, last, reads>>

\* Lines 138-140: _read_params_from_file(parameters_file_path).
ReadParamsFile(p) ==
    /\ pc[p] = "L140"
    /\ Did(p, {"read"})
    /\ \E readable \in BOOLEAN :
         IF readable
         THEN /\ session' = [session EXCEPT ![p].read = "ok"]
              /\ vmedia_params' =
                     [vmedia_params EXCEPT ![p] = read_params_from_file(vmedia)]
              /\ reads' = Bump(reads)
              /\ Goto(p, "L143")
              /\ UNCHANGED pending
         ELSE /\ session' = [session EXCEPT ![p].read = "failed"]
              /\ IF ReadFailure.status = "error"
                 THEN Fail(p, ReadFailure)
                 ELSE Goto(p, "L143") /\ UNCHANGED pending
              /\ UNCHANGED <<vmedia_params, reads>>
    /\ UNCHANGED <<cmdline, vmedia, resolved, seen, heap, cache, fn, params,
                   ret, result, prev, last, mounts>>

\* Lines 142-145: execute("umount", ...).
Umount(p) ==
    /\ pc[p] = "L143"
    /\ Did(p, {"umount"})
    /\ \E unmounted \in BOOLEAN :
         IF unmounted
         THEN /\ session' = [session EXCEPT ![p].umount = "ok"]
              /\ Goto(p, "L148")
              /\ UNCHANGED pending
         ELSE /\ session' = [session EXCEPT ![p].umount = "failed"]
              /\ IF UmountFailure.status = "error"
                 THEN Fail(p, UmountFailure)
                 ELSE Goto(p, "L148") /\ UNCHANGED pending
    /\ UNCHANGED <<cmdline, vmedia, resolved, seen, heap, cache, fn, params,
                   vmedia_params, ret, result, prev, last, mounts, reads>>

StillMounted(s) == s.mount = "ok" /\ s.umount # "ok"

\* Lines 146-152: the finally clause; a directory that is still a mount
\* point cannot be removed.  Then the pending exception goes on, or
\* _get_vmedia_params returns.
Rmtree(p) ==
    /\ pc[p] = "L148"
    /\ Did(p, {"rmtree"})
    /\ \E removed \in BOOLEAN :
         /\ removed => ~StillMounted(session[p])
         /\ session' = [session EXCEPT
                ![p].rmtree = IF removed THEN "ok" ELSE "failed",
                ![p].tmpdir = IF removed THEN "removed" ELSE @]
    /\ Goto(p, IF pending[p].status = "error" THEN "raise" ELSE "L188")
    /\ UNCHANGED <<cmdline, vmedia, resolved, seen, heap, cache, fn, params,
                   vmedia_params, ret, result, pending, prev, last, mounts,
                   reads>>

\* Lines 187-188.
Update(p) ==
    /\ pc[p] = "L188"
    /\ heap' = [heap EXCEPT
           ![params[p]] = MergeParams(heap[params[p]], vmedia_params[p])]
    /\ Goto(p, "L191")
    /\ UNCHANGED <<cmdline, vmedia, resolved, seen, cache, fn, params,
                   vmedia_params, ret, result, pending, session, io, prev,
                   last, mounts, reads>>

\* Line 191.
SetCached(p) ==
    /\ pc[p] = "L191"
    /\ cache' = set_cached_params(cache, params[p])
    /\ heap' = Collect(heap, cache', params, ret)
    /\ Goto(p, "L193")
    /\ UNCHANGED <<cmdline, vmedia, resolved, seen, fn, params, vmedia_params,
                   ret, result, pending, session, io, prev, last, mounts,
                   reads>>

\* Line 193; get_agent_params returns to the thread, or to line 214 of
\* parse_root_device_hints.
Return(p) ==
    /\ pc[p] = "L193"
    /\ LET id == deepcopy(params[p], NewId(Live(cache, params, ret)))
           value == heap[params[p]]
       IN  /\ ret' = [ret EXCEPT ![p] = id]
           /\ params' = [params EXCEPT ![p] = NoRef]
           /\ heap' = Collect([heap EXCEPT ![id] = value], cache, params', ret')
           /\ last' = Returned(value)
           /\ result' = [result EXCEPT ![p] = Returned(value)]
    /\ Goto(p, IF fn[p] = "get_agent_params" THEN "idle" ELSE "L214")
    /\ resolved' = (resolved \/ session[p].read = "ok")
    /\ vmedia_params' = [vmedia_params EXCEPT ![p] = EmptyMap]
    /\ UNCHANGED <<cmdline, vmedia, seen, cache, fn, pending, session, io,
                   prev, mounts, reads>>

\* Lines 214-238 of parse_root_device_hints.
ParseHints(p) ==
    /\ pc[p] = "L214"
    /\ result' = [result EXCEPT ![p] = HintsOf(heap[ret[p]])]
    /\ ret' = [ret EXCEPT ![p] = NoRef]
    /\ heap' = Collect(heap, cache, params, ret')
    /\ Goto(p, "idle")
    /\ UNCHANGED <<cmdline, vmedia, resolved, seen, cache, fn, params,
                   vmedia_params, pending, session, io, prev, last, mounts,
                   reads>>

\* An exception leaves get_agent_params and reaches the thread.
Propagate(p) ==
    /\ pc[p] = "raise"
    /\ result' = [result EXCEPT ![p] = pending[p]]
    /\ last' = pending[p]
    /\ pending' = [pending EXCEPT ![p] = NoResult]
    /\ params' = [params EXCEPT ![p] = NoRef]
    /\ vmedia_params' = [vmedia_params EXCEPT ![p] = EmptyMap]
    /\ heap' = Collect(heap, cache, params', ret)
    /\ Goto(p, "idle")
    /\ UNCHANGED <<cmdline, vmedia, resolved, seen, cache, fn, ret, session,
                   io, prev, mounts, reads>>

\* The caller changes the map get_agent_params gave it.
Mutate(p) ==
    /\ pc[p] = "idle"
    /\ ret[p] # NoRef
    /\ \/ \E k \in MutationKeys :
            heap' = [heap EXCEPT ![ret[p]] = Put(@, k, MutationValue)]
       \/ \E k \in DOMAIN heap[ret[p]] :
            heap' = [heap EXCEPT ![ret[p]] = Del(@, k)]
    /\ UNCHANGED <<cmdline, vmedia, resolved, seen, cache, pc, fn, params,
                   vmedia_params, ret, result, pending, session, io, prev,
                   last, mounts, reads>>

Functions == {"get_agent_params", "parse_root_device_hints"}

Step(p) ==
    \/ GetCached(p)
    \/ ReadCmdline(p)
    \/ CheckBootMethod(p)
    \/ FindDevice(p)
    \/ Mkdtemp(p)
    \/ Mount(p)
    \/ ReadParamsFile(p)
    \/ Umount(p)
    \/ Rmtree(p)
    \/ Update(p)
    \/ SetCached(p)
    \/ Return(p)
    \/ ParseHints(p)
    \/ Propagate(p)

\* The module is used from a single thread (its design assumes no
\* concurrent callers): the main thread makes every call.
MainThread == "t1"

Next ==
    \/ \E f \in Functions : Call(MainThread, f)
    \/ Mutate(MainThread)
    \/ Step(MainThread)

Spec == Init /\ [][Next]_vars

(***************************************************************************)
(* Two threads calling get_agent_params with no lock: every statement of   *)
(* one call may run between two statements of the other.                   *)
(***************************************************************************)
ConcCmdLines ==
    { <<>>,
      <<"a", "=", "1", " ", "quiet">>,
      <<"a", "=", "1", " ", "boot_method", "=", "vmedia">> }

InitConc ==
    /\ cmdline \in ConcCmdLines
    /\ vmedia \in VmediaTexts
    /\ Started

\* Each thread makes one call of get_agent_params.
NextConc ==
    \E p \in Procs :
        \/ result[p] = NoResult /\ Call(p, "get_agent_params")
        \/ GetCached(p)
        \/ ReadCmdline(p)
        \/ CheckBootMethod(p)
        \/ FindDevice(p)
        \/ Mkdtemp(p)
        \/ Mount(p)
        \/ ReadParamsFile(p)
        \/ Umount(p)
        \/ Rmtree(p)
        \/ Update(p)
        \/ SetCached(p)
        \/ Return(p)
        \/ Propagate(p)

SpecConc == InitConc /\ [][NextConc]_vars

(***************************************************************************)
(* The key=value parser on every short text: /proc/cmdline holds any text  *)
(* of the alphabet, and get_agent_params reads and parses it.              *)
(***************************************************************************)
InitParse ==
    /\ cmdline \in Texts
    /\ vmedia = <<>>
    /\ Started

NextParse ==
    \/ Call(MainThread, "get_agent_params")
    \/ GetCached(MainThread)
    \/ ReadCmdline(MainThread)
    \/ CheckBootMethod(MainThread)
    \/ SetCached(MainThread)
    \/ Return(MainThread)
    \/ Propagate(MainThread)

SpecParse == InitParse /\ [][NextParse]_vars

(***************************************************************************)
(* Vocabulary of the properties.                                           *)
(***************************************************************************)
CmdlineMap == read_params_from_file(cmdline)

VmediaMap == read_params_from_file(vmedia)

\* The command line asks for virtual media.
VmediaExpected ==
    /\ <<"boot_method">> \in DOMAIN CmdlineMap
    /\ CmdlineMap[<<"boot_method">>] = <<"vmedia">>

\* The command-line map, overridden by the vmedia map when boot_method=vmedia.
FullyMerged ==
    IF VmediaExpected
    THEN [k \in (DOMAIN CmdlineMap) \cup (DOMAIN VmediaMap) |->
             IF k \in DOMAIN VmediaMap THEN VmediaMap[k] ELSE CmdlineMap[k]]
    ELSE CmdlineMap

\* Thread p's call of get_agent_params has returned a map (to the thread, or
\* to line 214 of parse_root_device_hints).
GapReturned(p) ==
    /\ result[p].status = "ok"
    /\ \/ pc[p] = "idle" /\ fn[p] = "get_agent_params"
       \/ pc[p] = "L214"

GapErrors == {"IOError", "VirtualMediaBootError", "OSError"}

\* Thread p's call of parse_root_device_hints has ended in lines 215-238.
HintsDone(p) ==
    /\ pc[p] = "idle"
    /\ fn[p] = "parse_root_device_hints"
    /\ result[p].status # "none"
    /\ result[p].err \notin GapErrors

InVmediaParams == {"L115", "L128", "L131", "L140", "L143", "L148"}

\* The virtual-media path of thread p's call failed.
VmediaFailed(p) ==
    \/ session[p].discovery /\ session[p].device = NoDevice
    \/ session[p].mount = "failed"
    \/ session[p].read = "failed"

(***************************************************************************)
(* C1: two calls in succession, the first one successful.                  *)
(***************************************************************************)
\* C1 as stated: whatever the command line holds, a call of
\* get_agent_params that follows a successful one returns the same map and
\* does no I/O at all.
C1_SecondCallNoIO ==
    \A p \in Procs :
        (GapReturned(p) /\ prev[p].status = "ok")
            => result[p].value = prev[p].value /\ io[p] = {}

\* C1 amended: a call of get_agent_params that follows one which returned a
\* non-empty map returns an equal map and does no I/O (no read of
\* /proc/cmdline, no device lookup, no mount, no unmount).
C1_SecondCallCacheHit ==
    \A p \in Procs :
        (GapReturned(p) /\ prev[p].status = "ok" /\ prev[p].value # EmptyMap)
            => result[p].value = prev[p].value /\ io[p] = {}

C1_Witness ==
    \E p \in Procs :
        /\ GapReturned(p)
        /\ prev[p].status = "ok"
        /\ prev[p].value # EmptyMap
        /\ VmediaExpected

(***************************************************************************)
(* C2: the virtual media is read once.                                     *)
(***************************************************************************)
\* C2 as stated: over any sequence of calls the device is mounted at most
\* once and parameters.txt read at most once, and no call that begins after
\* a call that read the virtual media has returned enters
\* _get_vmedia_params.
C2_MountedAtMostOnce ==
    /\ mounts <= 1
    /\ reads <= 1
    /\ \A p \in Procs :
           seen[p] => session[p] = NoSession /\ pc[p] \notin InVmediaParams

\* C2 amended: parameters.txt is read successfully at most once, and no call
\* that begins after a call that read the virtual media has returned enters
\* _get_vmedia_params (the device may be mounted again by the calls that
\* follow a failed one).
C2_ReadAtMostOnce ==
    /\ reads <= 1
    /\ \A p \in Procs :
           seen[p] => session[p] = NoSession /\ pc[p] \notin InVmediaParams

C2_Witness ==
    \E p \in Procs : seen[p] /\ GapReturned(p) /\ mounts = MaxCount

(***************************************************************************)
(* C3: on a cache miss with boot_method=vmedia the vmedia values win.      *)
(***************************************************************************)
\* C3: the map returned by a call that read the virtual media has the
\* vmedia value for every key of parameters.txt, the command-line value for
\* every key only on the command line, and no other key.
C3_VmediaOverridesCmdline ==
    \A p \in Procs :
        (GapReturned(p) /\ session[p].read = "ok")
            => /\ DOMAIN result[p].value
                      = (DOMAIN CmdlineMap) \cup (DOMAIN VmediaMap)
               /\ \A k \in DOMAIN VmediaMap : result[p].value[k] = VmediaMap[k]
               /\ \A k \in (DOMAIN CmdlineMap) \ (DOMAIN VmediaMap) :
                      result[p].value[k] = CmdlineMap[k]

C3_Witness ==
    \E p \in Procs :
        /\ GapReturned(p)
        /\ session[p].read = "ok"
        /\ <<"a">> \in (DOMAIN CmdlineMap) \cap (DOMAIN VmediaMap)
        /\ CmdlineMap[<<"a">>] = <<"1">>
        /\ VmediaMap[<<"a">>] = <<"2">>
        /\ result[p].value = [k \in {<<"a">>, <<"boot_method">>} |->
                                 IF k = <<"a">> THEN <<"2">> ELSE <<"vmedia">>]

(***************************************************************************)
(* C4: without boot_method=vmedia the virtual media is never touched.      *)
(***************************************************************************)
\* C4: when the command-line map has no boot_method key, or a boot_method
\* other than vmedia, no call enters _get_vmedia_params or does any device
\* I/O, and every map returned equals the command-line map.
C4_NoVmediaUnlessAsked ==
    (\/ <<"boot_method">> \notin DOMAIN CmdlineMap
     \/ CmdlineMap[<<"boot_method">>] # <<"vmedia">>)
        => \A p \in Procs :
               /\ pc[p] \notin InVmediaParams
               /\ session[p] = NoSession
               /\ io[p] \subseteq {"cmdline"}
               /\ GapReturned(p) => result[p].value = CmdlineMap

C4_Witness ==
    \E p \in Procs :
        /\ GapReturned(p)
        /\ <<"boot_method">> \in DOMAIN CmdlineMap
        /\ CmdlineMap[<<"boot_method">>] = <<"pxe">>
        /\ io[p] = {"cmdline"}

(***************************************************************************)
(* C5: the cache holds nothing or a fully merged map.                      *)
(***************************************************************************)
\* C5: in every state the cached map is empty or the fully merged map, and
\* while an error of get_agent_params propagates, and after it reached the
\* caller, the cache is as the call found it: empty.
C5_CacheEmptyOrMerged ==
    /\ heap[cache] = EmptyMap \/ heap[cache] = FullyMerged
    /\ \A p \in Procs :
           (\/ pending[p].status = "error"
            \/ pc[p] = "raise"
            \/ pc[p] = "idle" /\ result[p].err \in GapErrors)
               => heap[cache] = EmptyMap

C5_Witness ==
    \E p \in Procs :
        /\ pc[p] = "idle"
        /\ result[p].err = "IOError"
        /\ session[p].read = "failed"
        /\ CmdlineMap # EmptyMap
        /\ heap[cache] = EmptyMap

(***************************************************************************)
(* C6: a failure of the virtual-media path is an error of the call.        *)
(***************************************************************************)
\* C6: once the virtual-media path of a call has failed (no device, mount
\* failure, unreadable parameters.txt) the call only cleans up and raises:
\* it ends in an error and returns no map.
C6_VmediaFailureRaises ==
    \A p \in Procs :
        VmediaFailed(p)
            => /\ pc[p] \in {"L148", "raise", "idle"}
               /\ pending[p].status = "error" \/ result[p].status = "error"
               /\ pc[p] = "idle" => result[p].status = "error"

C6_Witness ==
    \E p \in Procs :
        /\ pc[p] = "idle"
        /\ session[p].mount = "failed"
        /\ result[p].err = "VirtualMediaBootError"

(***************************************************************************)
(* C7: the temporary mount directory is always removed.                    *)
(***************************************************************************)
\* C7: outside the try block of _get_vmedia_params, a temporary directory
\* that was created has had rmtree run on it, whatever happened to mount,
\* read and umount; and when no device is found none is created.
C7_TmpdirRemoved ==
    \A p \in Procs :
        /\ (session[p].tmpdir # "none"
                /\ pc[p] \notin {"L131", "L140", "L143", "L148"})
               => session[p].rmtree # "none"
        /\ (session[p].discovery /\ session[p].device = NoDevice)
               => session[p].tmpdir = "none"

C7_Witness ==
    \E p \in Procs :
        /\ pc[p] = "idle"
        /\ session[p].mount = "failed"
        /\ session[p].tmpdir = "removed"
        /\ result[p].status = "error"

(***************************************************************************)
(* C8: the caller's map is not the cached map.                             *)
(***************************************************************************)
\* C8: every map get_agent_params returns is the fully merged map, whatever
\* callers did to the maps returned before; and no step (a caller changing
\* its map, parse_root_device_hints) changes a cached map.
C8_CacheIndependent ==
    /\ [](\A p \in Procs : GapReturned(p) => result[p].value = FullyMerged)
    /\ [][heap[cache] # EmptyMap => heap'[cache'] = heap[cache]]_vars

C8_Witness ==
    \E p \in Procs :
        /\ GapReturned(p)
        /\ prev[p].status = "ok"
        /\ heap[cache] # EmptyMap
        /\ heap[ret[p]] # heap[cache]

(***************************************************************************)
(* C9, C10: hint keys.                                                     *)
(***************************************************************************)
\* The root_device value parse_root_device_hints was given.
RootDevice ==
    IF <<"root_device">> \in DOMAIN FullyMerged
    THEN FullyMerged[<<"root_device">>]
    ELSE <<>>

RootDeviceItems == SplitAll(RootDevice, {","})

CountEq(item) == Cardinality({i \in DOMAIN item : item[i] = "="})

\* The part of an item before its first "=", and the part after it.
KeyOf(item) == SubSeq(item, 1, FirstIn(item, {"="}) - 1)
ValueOf(item) == SubSeq(item, FirstIn(item, {"="}) + 1, Len(item))

ItemKeys == {KeyOf(RootDeviceItems[i]) : i \in DOMAIN RootDeviceItems}

\* C9: parse_root_device_hints fails or returns a map with supported keys
\* only; and when every item is key=value and some key is unsupported it
\* fails with DeviceNotFound, the error naming all the unsupported keys.
C9_UnsupportedHints ==
    \A p \in Procs :
        HintsDone(p)
            => /\ result[p].status = "ok"
                      => DOMAIN result[p].value \subseteq
                             SUPPORTED_ROOT_DEVICE_HINTS
               /\ (/\ RootDevice # <<>>
                   /\ \A i \in DOMAIN RootDeviceItems :
                          CountEq(RootDeviceItems[i]) = 1
                   /\ ~(ItemKeys \subseteq SUPPORTED_ROOT_DEVICE_HINTS))
                      => /\ result[p].err = "DeviceNotFound"
                         /\ result[p].not_supported
                                = ItemKeys \ SUPPORTED_ROOT_DEVICE_HINTS

C9_Witness ==
    \E p \in Procs :
        /\ HintsDone(p)
        /\ result[p].err = "DeviceNotFound"
        /\ result[p].not_supported = {<<"foo">>, <<"qux">>}

\* The last item of the root_device value that has key k.
LastItemWith(k) ==
    RootDeviceItems[
        CHOOSE i \in DOMAIN RootDeviceItems :
            /\ KeyOf(RootDeviceItems[i]) = k
            /\ \A j \in DOMAIN RootDeviceItems :
                   KeyOf(RootDeviceItems[j]) = k => j <= i]

\* C10: when every item of root_device holds "=" and the text before its
\* first "=" is a supported key other than size, parse_root_device_hints
\* succeeds and maps each key to the normalized text after that first "=",
\* further "=" included.
C10_SplitOnFirstEq ==
    \A p \in Procs :
        (/\ HintsDone(p)
         /\ RootDevice # <<>>
         /\ \A i \in DOMAIN RootDeviceItems :
                /\ CountEq(RootDeviceItems[i]) >= 1
                /\ KeyOf(RootDeviceItems[i])
                       \in SUPPORTED_ROOT_DEVICE_HINTS \ {<<"size">>})
            => /\ result[p].status = "ok"
               /\ result[p].value
                      = [k \in ItemKeys |-> normalize(ValueOf(LastItemWith(k)))]

(***************************************************************************)
(* C11: the hints returned.                                                *)
(***************************************************************************)
\* The value of hint key k as parse_root_device_hints is to return it.
ExpectedHint(k) ==
    IF k = <<"size">>
    THEN IntOf(normalize(ValueOf(LastItemWith(k))))
    ELSE normalize(ValueOf(LastItemWith(k)))

\* C11: without a root_device entry parse_root_device_hints returns the
\* empty map; and when every item of root_device is key=value with a
\* supported key (and the size, if given, normalizes to an integer) it
\* returns exactly these keys, each with its normalized value, size as an
\* integer.
C11_HintsReturned ==
    \A p \in Procs :
        HintsDone(p)
            => /\ <<"root_device">> \notin DOMAIN FullyMerged
                      => result[p].status = "ok" /\ result[p].value = EmptyMap
               /\ (/\ RootDevice # <<>>
                   /\ \A i \in DOMAIN RootDeviceItems :
                          /\ CountEq(RootDeviceItems[i]) >= 1
                          /\ KeyOf(RootDeviceItems[i])
                                 \in SUPPORTED_ROOT_DEVICE_HINTS
                   /\ <<"size">> \in ItemKeys
                          => IsInt(normalize(ValueOf(LastItemWith(<<"size">>)))))
                      => /\ result[p].status = "ok"
                         /\ DOMAIN result[p].value = ItemKeys
                         /\ \A k \in ItemKeys :
                                result[p].value[k] = ExpectedHint(k)

(***************************************************************************)
(* C12: unmount before the directory is removed.                           *)
(***************************************************************************)
\* C12: once rmtree has run on the mount point of a device that was
\* mounted, an unmount was attempted before, whatever happened to the read
\* of parameters.txt; and after a failed unmount rmtree still runs before
\* _get_vmedia_params is left.
C12_UmountBeforeRmtree ==
    \A p \in Procs :
        /\ (session[p].mount = "ok" /\ session[p].rmtree # "none")
               => session[p].umount # "none"
        /\ (session[p].umount = "failed"
                /\ pc[p] \notin {"L131", "L140", "L143", "L148"})
               => session[p].rmtree # "none"

(***************************************************************************)
(* C13: the order in which the device is looked for.                       *)
(***************************************************************************)
\* C13: when the stable path exists it is the device and sysfs is not
\* scanned; sysfs is scanned exactly when the path does not exist; and when
\* the scan finds nothing the call raises VirtualMediaBootError with no
\* temporary directory created and no mount attempted.
C13_DeviceOrder ==
    \A p \in Procs :
        /\ session[p].stable = "present"
               => /\ ~session[p].discovery
                  /\ "sysfs" \notin io[p]
                  /\ session[p].device = "ir-vfd-dev"
        /\ session[p].stable = "absent"
               => session[p].discovery /\ "sysfs" \in io[p]
        /\ session[p].discovery => session[p].stable = "absent"
        /\ (session[p].discovery /\ session[p].device = NoDevice)
               => /\ session[p].tmpdir = "none"
                  /\ session[p].mount = "none"
                  /\ io[p] \cap {"mkdtemp", "mount"} = {}
                  /\ pc[p] \in {"raise", "idle"}
                  /\ pc[p] = "raise"
                         => pending[p].err = "VirtualMediaBootError"
                  /\ pc[p] = "idle"
                         => result[p].err = "VirtualMediaBootError"

C13_Witness ==
    \E p \in Procs :
        /\ pc[p] = "idle"
        /\ session[p].stable = "absent"
        /\ session[p].sysfs # <<>>
        /\ session[p].device = NoDevice
        /\ result[p].err = "VirtualMediaBootError"

(***************************************************************************)
(* C14: a failed unmount is not an error.                                  *)
(***************************************************************************)
\* C14: after a failed unmount (mount and read having succeeded) no
\* exception is pending and none reaches the caller: _get_vmedia_params
\* hands the map parsed from parameters.txt to line 188, and
\* get_agent_params caches and returns the fully merged map.
C14_UmountFailureIgnored ==
    \A p \in Procs :
        session[p].umount = "failed"
            => /\ pending[p].status # "error"
               /\ pc[p] # "raise"
               /\ result[p].err \notin GapErrors
               /\ pc[p] \in {"L148", "L188"} => vmedia_params[p] = VmediaMap
               /\ GapReturned(p)
                      => /\ result[p].value = FullyMerged
                         /\ heap[cache] = FullyMerged

C14_Witness ==
    \E p \in Procs :
        /\ GapReturned(p)
        /\ session[p].umount = "failed"
        /\ VmediaMap # EmptyMap
        /\ heap[cache] = result[p].value

(***************************************************************************)
(* C17: the scan of the model descriptors.                                 *)
(***************************************************************************)
\* A descriptor that can be read and whose lowercased content holds the
\* words virtual media.
IsVirtualMedia(d) ==
    /\ d.readable
    /\ \E i \in 1..(Len(d.content) - 2) :
           /\ LowerWord(d.content[i]) = "virtual"
           /\ d.content[i + 1] = " "
           /\ LowerWord(d.content[i + 2]) = "media"

\* C17: the device _get_vmedia_device returns is that of the first
\* descriptor, in enumeration order, that is readable and matches, readable
\* or not the ones before it; it is None exactly when there is none.
C17_FirstMatchingDescriptor ==
    \A p \in Procs :
        (session[p].discovery
             /\ (pc[p] = "L128" \/ session[p].device = NoDevice))
            => LET models == session[p].sysfs
                   matching == {i \in DOMAIN models : IsVirtualMedia(models[i])}
               IN  /\ matching = {} <=> session[p].device = NoDevice
                   /\ \A i \in matching :
                          (\A j \in matching : i <= j)
                              => session[p].device = models[i].dev

C17_Witness ==
    \E p \in Procs :
        /\ pc[p] = "L128"
        /\ session[p].discovery
        /\ Len(session[p].sysfs) = 2
        /\ ~session[p].sysfs[1].readable
        /\ session[p].device = "sdb"

(***************************************************************************)
(* C18: the key check comes before the conversion of size.                 *)
(***************************************************************************)
\* C18: the integer-conversion error of line 236 comes only with hint keys
\* that are all supported; a root_device of key=value items with an
\* unsupported key fails with DeviceNotFound, a non-integer size
\* notwithstanding.
C18_KeyCheckFirst ==
    \A p \in Procs :
        HintsDone(p)
            => /\ (result[p].err = "ValueError" /\ result[p].line = 236)
                      => ItemKeys \subseteq SUPPORTED_ROOT_DEVICE_HINTS
               /\ (/\ RootDevice # <<>>
                   /\ \A i \in DOMAIN RootDeviceItems :
                          CountEq(RootDeviceItems[i]) = 1
                   /\ ItemKeys \ SUPPORTED_ROOT_DEVICE_HINTS # {})
                      => /\ result[p].err = "DeviceNotFound"
                         /\ result[p].line # 236

C18_Witness ==
    \E p \in Procs :
        /\ HintsDone(p)
        /\ RootDevice = <<"foo", "=", ",", "size", "=", "x">>
        /\ result[p].err = "DeviceNotFound"

(***************************************************************************)
(* C15, C16: the key=value parser (under SpecParse).                       *)
(***************************************************************************)
\* The tokens of /proc/cmdline: the maximal runs of symbols that are not
\* whitespace, each named by the index of its first symbol.
TokenStarts ==
    {i \in DOMAIN cmdline :
        /\ cmdline[i] \notin Whitespace
        /\ i = 1 \/ cmdline[i - 1] \in Whitespace}

TokenEnd(i) ==
    CHOOSE j \in i..Len(cmdline) :
        /\ \A k \in i..j : cmdline[k] \notin Whitespace
        /\ j = Len(cmdline) \/ cmdline[j + 1] \in Whitespace

Token(i) == SubSeq(cmdline, i, TokenEnd(i))

EqTokens == {i \in TokenStarts : \E k \in i..TokenEnd(i) : cmdline[k] = "="}

\* C15: the parsing never fails (only the reading of the file can), and the
\* map parsed has as keys the texts before the first "=" of the tokens that
\* hold one, each with all the text after that first "=" of the last such
\* token; a text without tokens gives the empty map.
C15_ParsedTokens ==
    \A p \in Procs :
        /\ pending[p].status = "error" => pending[p].err = "IOError"
        /\ pc[p] = "L186"
               => LET m == heap[params[p]]
                  IN  /\ DOMAIN m = {KeyOf(Token(i)) : i \in EqTokens}
                      /\ \A i \in EqTokens :
                             (\A j \in EqTokens :
                                  KeyOf(Token(j)) = KeyOf(Token(i)) => j <= i)
                                 => m[KeyOf(Token(i))] = ValueOf(Token(i))
                      /\ TokenStarts = {} => m = EmptyMap

C15_Witness ==
    \E p \in Procs :
        /\ pc[p] = "L186"
        /\ cmdline = <<"b", "\n", "a", "=", "=">>
        /\ heap[params[p]] = [k \in {<<"a">>} |-> <<"=">>]

\* The k=v tokens of map m in the given order of its keys, joined by sep.
Serialize(m, order, sep) ==
    JoinWith([i \in DOMAIN order |-> order[i] \o <<"=">> \o m[order[i]]], sep)

Orders(keys) ==
    {order \in [1..Cardinality(keys) -> keys] :
        \A i, j \in DOMAIN order : order[i] = order[j] => i = j}

\* C16: the map parsed from a text, written as k=v tokens in any order with
\* any whitespace between them and parsed again, is the same map.
C16_RoundTrip ==
    \A p \in Procs :
        pc[p] = "L186"
            => LET m == heap[params[p]]
               IN  \A order \in Orders(DOMAIN m), sep \in Whitespace :
                       read_params_from_file(Serialize(m, order, sep)) = m

C16_Witness ==
    \E p \in Procs :
        /\ pc[p] = "L186"
        /\ Cardinality(DOMAIN heap[params[p]]) = 2
        /\ \E k \in DOMAIN heap[params[p]] : "=" \in Range(heap[params[p]][k])

(***************************************************************************)
(* C19: two interleaved calls of get_agent_params (under SpecConc).        *)
(***************************************************************************)
\* C19: in every interleaving of the two threads, each execution of line 191
\* writes a fully merged map to the cache, the cache never holds anything
\* but its initial empty map or the fully merged map, and every call that
\* returns a map returns the fully merged map (so all calls return the same
\* map, the two sources being fixed).
C19_InterleavedCallsAgree ==
    /\ [](/\ heap[cache] = EmptyMap \/ heap[cache] = FullyMerged
          /\ \A p \in Procs : GapReturned(p) => result[p].value = FullyMerged)
    /\ [][\A p \in Procs :
              (pc[p] = "L191" /\ pc'[p] = "L193")
                  => heap'[cache'] = FullyMerged]_vars

\* Both threads saw an empty cache, both mounted and read the virtual media,
\* and both have returned.
C19_Witness ==
    /\ mounts = 2
    /\ VmediaMap # EmptyMap
    /\ \A p \in Procs :
           /\ GapReturned(p)
           /\ session[p].mount = "ok"
           /\ session[p].read = "ok"
           /\ result[p].value = FullyMerged

=============================================================================
